---- MODULE Spec2Model ----
(***************************************************************************)
(* State machine of the StockDashboard component (src/src/App.js): the     *)
(* React state of the component, the asynchronous handlers with the        *)
(* values their closures captured when they were called, and the remote    *)
(* store they talk to.                                                     *)
(*                                                                         *)
(* Encoding of JavaScript values:                                          *)
(*   null            <<>>                                                  *)
(*   a string s      <<"string", s>>   (numeric form fields)               *)
(*   a number n      <<"number", n>>                                       *)
(*   an object o     <<o>> where null is possible, o where it is not      *)
(* name and ticker are always strings and are kept as plain strings.       *)
(***************************************************************************)
EXTENDS Integers, Sequences, FiniteSets, TLC

VARIABLES
  \* the component's state (lines 10-25)
  stocks, newStock, editStock, loading, error, portfolioMetrics,
  isMetricsLoading,
  \* the remote store: its holdings and the next id it assigns
  remote, nextId,
  \* the handlers suspended at an await, in the order they were called
  inflight,
  \* the number of POST, PUT and DELETE requests issued so far
  requests,
  \* whether some request has failed so far
  failed,
  \* the step just taken
  last

vars == <<stocks, newStock, editStock, loading, error, portfolioMetrics,
          isMetricsLoading, remote, nextId, inflight, requests, failed, last>>

-----------------------------------------------------------------------------
(* Bounds *)

\* holdings the remote store holds before the dashboard is mounted
MaxLoad == 2
\* requests that may be awaiting their response at the same time
MaxInFlight == 2
\* POST, PUT and DELETE requests issued in one run
MaxRequests == 2
\* the same, in the runs of SpecEditRemoveDeep
MaxRequestsDeep == 3
\* holdings in a payload of GET /stocks in the runs of SpecMetrics
MaxPayload == 3

-----------------------------------------------------------------------------
(* JavaScript values *)

Null == <<>>
Str(s) == <<"string", s>>
Num(n) == <<"number", n>>

\* Number("") is 0; the other strings are what <input type="number"> yields
StringToNumber(s) ==
  CASE s = "" -> 0
    [] s = "0" -> 0
    [] s = "-1" -> -1
    [] s = "2" -> 2
    [] s = "5" -> 5

\* ToNumber of the abstract relational comparison and of `*`
ToNumber(v) ==
  IF v = Null THEN 0
  ELSE IF v[1] = "number" THEN v[2]
  ELSE StringToNumber(v[2])

\* ToBoolean, as applied by `!v`
Truthy(v) ==
  IF v = Null THEN FALSE
  ELSE IF v[1] = "number" THEN v[2] # 0
  ELSE v[2] # ""

Range(s) == { s[i] : i \in 1..Len(s) }

-----------------------------------------------------------------------------
(* Values the bounded environment supplies *)

\* what the user can type into the name, ticker, quantity and buyPrice inputs
\* while no stock is edited (every field starts as "")
FormNames == {"A"}
FormTickers == {"T"}
FormQuantities == {"0", "2"}
FormBuyPrices == {"-1", "5"}

\* what the user can type into the inputs while a stock is edited
EditNames == {}
EditTickers == {}
EditQuantities == {"0", "5"}
EditBuyPrices == {}

\* current_price values the remote store can put into a record it returns
RemotePrices == {Null, Num(30)}

Holding(i, n, t, q, b, cp) ==
  [id |-> i, name |-> n, ticker |-> t, quantity |-> q, buyPrice |-> b,
   current_price |-> cp]

\* the holding with id i the remote store holds before the mount, if it
\* holds one: a priced position (unpriced ones come from POST and PUT)
SeedHoldings(i) == { Holding(i, "S", "T", Num(2), Num(5), Num(10)) }

RECURSIVE SeedCollections(_)
\* the collections of n holdings, ids 1..n, the remote store may start with
SeedCollections(n) ==
  IF n = 0 THEN {<<>>}
  ELSE { Append(c, h) : c \in SeedCollections(n - 1), h \in SeedHoldings(n) }

InitialRemotes == UNION { SeedCollections(n) : n \in 0..MaxLoad }

\* the <<quantity, current_price>> of the holdings GET /stocks may return:
\* priced positions, and positions with a missing, zero or negative price or
\* a zero or negative quantity
MetricPositions ==
  ({ Num(1), Num(3) } \X { Num(10), Num(30) })
    \cup { <<Num(1), Null>>, <<Num(3), Num(0)>>, <<Num(3), Num(-10)>>,
           <<Num(0), Num(30)>>, <<Num(-1), Num(30)>>, <<Num(-1), Num(-10)>> }
MetricNames == <<"A", "B", "C", "D", "E">>

MetricHoldings(i) ==
  { Holding(i, MetricNames[i], "T", p[1], Num(5), p[2]) :
      p \in MetricPositions }

RECURSIVE MetricCollectionsOf(_)
MetricCollectionsOf(n) ==
  IF n = 0 THEN {<<>>}
  ELSE { Append(c, h) : c \in MetricCollectionsOf(n - 1),
                        h \in MetricHoldings(n) }

MetricCollections == UNION { MetricCollectionsOf(n) : n \in 0..MaxPayload }

\* the values Math.random() * 360 takes in line 90
Hues == { 0, 180 }

-----------------------------------------------------------------------------
(* The remote store (GET/POST/PUT/DELETE /stocks) *)

\* the record the store keeps for a submitted body: numeric fields as numbers
RemoteRecord(i, body, cp) ==
  Holding(i, body.name, body.ticker, Num(ToNumber(body.quantity)),
          Num(ToNumber(body.buyPrice)), cp)

RemoteHas(r, i) == \E k \in 1..Len(r) : r[k].id = i

RemotePut(r, rec) == [k \in 1..Len(r) |-> IF r[k].id = rec.id THEN rec ELSE r[k]]

RemoteDelete(r, i) == SelectSeq(r, LAMBDA h : h.id # i)

-----------------------------------------------------------------------------
(* The component's state (useState, lines 10-25) as one record *)

EmptyForm == [name |-> "", ticker |-> "", quantity |-> Str(""), buyPrice |-> Str("")]

EmptyMetrics == [totalValue |-> 0, topStock |-> Null, portfolioDistribution |-> <<>>]

InitialState ==
  [stocks |-> <<>>,
   newStock |-> EmptyForm,
   editStock |-> Null,
   loading |-> TRUE,
   error |-> Null,
   portfolioMetrics |-> <<EmptyMetrics>>,
   isMetricsLoading |-> TRUE]

-----------------------------------------------------------------------------
(* fetchPortfolioMetrics (lines 49-79) *)

\* the filter predicate without its quantity test
IsValidStockByPrice(stock) == ToNumber(stock.current_price) > 0

\* the filter predicate of line 53
IsValidStock(stock) ==
  ToNumber(stock.current_price) > 0 /\ ToNumber(stock.quantity) > 0

validStocks(list) == SelectSeq(list, IsValidStock)

StockValue(stock) == ToNumber(stock.current_price) * ToNumber(stock.quantity)

RECURSIVE ReduceTotal(_, _, _)
\* validStocks.reduce((acc, stock) => acc + price * quantity, 0)
ReduceTotal(list, i, acc) ==
  IF i > Len(list) THEN acc
  ELSE ReduceTotal(list, i + 1, acc + StockValue(list[i]))

RECURSIVE ReduceTopOrEqual(_, _, _)
\* the reduce of lines 61-63 with >= for >
ReduceTopOrEqual(list, i, top) ==
  IF i > Len(list) THEN top
  ELSE ReduceTopOrEqual(list, i + 1,
         IF top = Null
            \/ ToNumber(list[i].current_price) >= ToNumber(top[1].current_price)
         THEN <<list[i]>> ELSE top)

RECURSIVE ReduceTop(_, _, _)
\* validStocks.reduce((top, stock) => !top || price > top.price ? stock : top, null)
ReduceTop(list, i, top) ==
  IF i > Len(list) THEN top
  ELSE ReduceTop(list, i + 1,
         IF top = Null
            \/ ToNumber(list[i].current_price) > ToNumber(top[1].current_price)
         THEN <<list[i]>> ELSE top)

\* the share as a fraction of one, not of a hundred
PercentageOfOne(stock, totalValue) == <<StockValue(stock), totalValue>>

\* (price * quantity / totalValue) * 100, kept as the exact fraction
\* <<numerator, denominator>>
Percentage(stock, totalValue) == <<StockValue(stock) * 100, totalValue>>

DistributionEntry(stock, totalValue) ==
  [id |-> stock.id, name |-> stock.name, ticker |-> stock.ticker,
   quantity |-> stock.quantity, buyPrice |-> stock.buyPrice,
   current_price |-> stock.current_price,
   percentage |-> Percentage(stock, totalValue)]

\* the metrics object built for a collection (lines 52-74)
ComputeMetrics(list) ==
  LET valid == validStocks(list)
      totalValue == ReduceTotal(valid, 1, 0)
  IN [totalValue |-> totalValue,
      topStock |-> ReduceTop(valid, 1, Null),
      portfolioDistribution |->
        [k \in 1..Len(valid) |-> DistributionEntry(valid[k], totalValue)]]

\* the value handed to setPortfolioMetrics (lines 51, 70-77)
MetricsFor(list) ==
  IF Len(list) > 0 THEN <<ComputeMetrics(list)>> ELSE Null

fetchPortfolioMetrics(st, list) ==
  [st EXCEPT !.portfolioMetrics = MetricsFor(list), !.isMetricsLoading = FALSE]

-----------------------------------------------------------------------------
(* pieChartData (lines 82-98); `random` holds the results of the calls of
   Math.random, one per entry of the distribution *)

\* the object {}: the record with no field
EmptyObject == <<>>

\* `hsl(${hue}, 70%, 60%)`
Hsl(hue) == <<"hsl", hue, 70, 60>>

\* pieChartData with one color for the whole chart
pieChartDataOneColor(metrics, random) ==
  IF metrics # Null /\ Len(metrics[1].portfolioDistribution) > 0
  THEN LET distribution == metrics[1].portfolioDistribution IN
       [labels |-> [k \in 1..Len(distribution) |-> distribution[k].name],
        datasets |->
          <<[data |-> [k \in 1..Len(distribution) |->
                        distribution[k].percentage],
             backgroundColor |-> <<Hsl(random[1])>>,
             hoverOffset |-> 4]>>]
  ELSE EmptyObject

pieChartData(metrics, random) ==
  IF metrics # Null /\ Len(metrics[1].portfolioDistribution) > 0
  THEN LET distribution == metrics[1].portfolioDistribution IN
       [labels |-> [k \in 1..Len(distribution) |-> distribution[k].name],
        datasets |->
          <<[data |-> [k \in 1..Len(distribution) |->
                        distribution[k].percentage],
             backgroundColor |-> [k \in 1..Len(distribution) |->
                                   Hsl(random[k])],
             hoverOffset |-> 4]>>]
  ELSE EmptyObject

-----------------------------------------------------------------------------
(* fetchStocks (lines 28-47); a response is [ok, isArray, data] *)

\* fetchStocks without the Array.isArray check of line 32
fetchStocksNoArrayCheck(st, response) ==
  LET after ==
        IF response.ok
        THEN fetchPortfolioMetrics([st EXCEPT !.stocks = response.data],
                                   response.data)
        ELSE [st EXCEPT !.error = <<"Failed to fetch stock data.">>]
  IN [after EXCEPT !.loading = FALSE]

fetchStocks(st, response) ==
  LET after ==
        IF response.ok /\ response.isArray
        THEN fetchPortfolioMetrics([st EXCEPT !.stocks = response.data],
                                   response.data)
        ELSE [st EXCEPT !.error = <<"Failed to fetch stock data.">>]
  IN [after EXCEPT !.loading = FALSE]

-----------------------------------------------------------------------------
(* handleAddStock (lines 101-122) *)

\* AddValidation without the check of line 106
AddValidationNoSignCheck(form) ==
  IF form.name = "" \/ form.ticker = "" \/ ~Truthy(form.quantity)
     \/ ~Truthy(form.buyPrice)
  THEN <<"Please fill in all fields.">>
  ELSE Null

\* the error of the two checks of lines 102-109, Null when the form passes
AddValidation(form) ==
  IF form.name = "" \/ form.ticker = "" \/ ~Truthy(form.quantity)
     \/ ~Truthy(form.buyPrice)
  THEN <<"Please fill in all fields.">>
  ELSE IF ToNumber(form.quantity) <= 0 \/ ToNumber(form.buyPrice) <= 0
  THEN <<"Quantity and Buy Price must be positive numbers.">>
  ELSE Null

\* stockWithPrice (line 112)
stockWithPrice(form) ==
  [name |-> form.name, ticker |-> form.ticker, quantity |-> form.quantity,
   buyPrice |-> form.buyPrice, current_price |-> Null]

\* handleAddStock with the form reset moved out of the try block
handleAddStockResetsAlways(st, closure, response) ==
  IF response.ok
  THEN fetchPortfolioMetrics(
         [st EXCEPT !.stocks = Append(closure.stocks, response.data),
                    !.newStock = EmptyForm,
                    !.error = Null],
         Append(closure.stocks, response.data))
  ELSE [st EXCEPT !.newStock = EmptyForm, !.error = <<"Failed to add stock.">>]

\* handleAddStock recomputing from the captured stocks, as line 153 does
handleAddStockStaleMetrics(st, closure, response) ==
  IF response.ok
  THEN fetchPortfolioMetrics(
         [st EXCEPT !.stocks = Append(closure.stocks, response.data),
                    !.newStock = EmptyForm,
                    !.error = Null],
         closure.stocks)
  ELSE [st EXCEPT !.error = <<"Failed to add stock.">>]

\* lines 113-121, run when the POST settles; `closure` holds the stocks of
\* the render in which the handler was called
handleAddStock(st, closure, response) ==
  IF response.ok
  THEN fetchPortfolioMetrics(
         [st EXCEPT !.stocks = Append(closure.stocks, response.data),
                    !.newStock = EmptyForm,
                    !.error = Null],
         Append(closure.stocks, response.data))
  ELSE [st EXCEPT !.error = <<"Failed to add stock.">>]

-----------------------------------------------------------------------------
(* handleEditStock, handleEditChange, handleSaveEdit, handleCancelEdit
   (lines 125-163) *)

\* the checks of lines 136-143 on the edit buffer, Null when it passes
EditValidation(edit) ==
  IF edit = Null \/ edit[1].name = "" \/ edit[1].ticker = ""
     \/ ~Truthy(edit[1].quantity) \/ ~Truthy(edit[1].buyPrice)
  THEN <<"Please fill in all fields.">>
  ELSE IF ToNumber(edit[1].quantity) <= 0 \/ ToNumber(edit[1].buyPrice) <= 0
  THEN <<"Quantity and Buy Price must be positive numbers.">>
  ELSE Null

\* handleSaveEdit with setEditStock(null) moved out of the try block
handleSaveEditLeavesEditMode(st, closure, response) ==
  IF response.ok
  THEN fetchPortfolioMetrics(
         [st EXCEPT !.stocks =
                      [k \in 1..Len(closure.stocks) |->
                         IF closure.stocks[k].id = closure.body.id
                         THEN response.data ELSE closure.stocks[k]],
                    !.editStock = Null],
         closure.stocks)
  ELSE [st EXCEPT !.error = <<"Failed to update stock.">>,
                  !.editStock = Null]

\* lines 146-157, run when the PUT settles; `closure` holds the stocks and
\* the editStock of the render in which the handler was called
handleSaveEdit(st, closure, response) ==
  IF response.ok
  THEN fetchPortfolioMetrics(
         [st EXCEPT !.stocks =
                      [k \in 1..Len(closure.stocks) |->
                         IF closure.stocks[k].id = closure.body.id
                         THEN response.data ELSE closure.stocks[k]],
                    !.editStock = Null],
         closure.stocks)
  ELSE [st EXCEPT !.error = <<"Failed to update stock.">>]

-----------------------------------------------------------------------------
(* handleDeleteStock (lines 166-175) *)

WithoutId(list, i) == SelectSeq(list, LAMBDA stock : stock.id # i)

\* lines 169-174, run when the DELETE settles
handleDeleteStock(st, closure, response) ==
  IF response.ok
  THEN fetchPortfolioMetrics(
         [st EXCEPT !.stocks = WithoutId(closure.stocks, closure.body.id)],
         WithoutId(closure.stocks, closure.body.id))
  ELSE [st EXCEPT !.error = <<"Failed to delete stock.">>]

-----------------------------------------------------------------------------
(* The state machine *)

State ==
  [stocks |-> stocks, newStock |-> newStock, editStock |-> editStock,
   loading |-> loading, error |-> error, portfolioMetrics |-> portfolioMetrics,
   isMetricsLoading |-> isMetricsLoading]

SetState(st) ==
  /\ stocks' = st.stocks
  /\ newStock' = st.newStock
  /\ editStock' = st.editStock
  /\ loading' = st.loading
  /\ error' = st.error
  /\ portfolioMetrics' = st.portfolioMetrics
  /\ isMetricsLoading' = st.isMetricsLoading

\* what the step just taken was: the operation, how it ended, whether any
\* other request was in flight during its round trip, the id it was about
Event(op, outcome, solo, id) ==
  [op |-> op, outcome |-> outcome, solo |-> solo, id |-> id]

\* the render dereferences portfolioMetrics.totalValue (line 188) once
\* loading is false: with portfolioMetrics null it throws and React unmounts
\* the component
RenderThrows == ~loading /\ portfolioMetrics = Null

\* the form and the cards are rendered (lines 183-285)
Interactive == ~loading /\ ~RenderThrows

HasCard(i) == \E k \in 1..Len(stocks) : stocks[k].id = i

\* the card of stock i shows Save/Cancel (lines 214-222)
IsEdited(i) == editStock # Null /\ editStock[1].id = i

RemoveAt(s, i) == SubSeq(s, 1, i - 1) \o SubSeq(s, i + 1, Len(s))

\* a handler suspended at its await: the values its closure captured
Closure(kind, body) ==
  [kind |-> kind, stocks |-> stocks, body |-> body, solo |-> inflight = <<>>]

\* the handler calls axios and suspends; `limit` bounds the requests of a run
IssueWithin(limit, kind, body, id) ==
  /\ Len(inflight) < MaxInFlight
  /\ requests < limit
  /\ requests' = requests + 1
  /\ inflight' = Append([k \in 1..Len(inflight) |->
                           [inflight[k] EXCEPT !.solo = FALSE]],
                        Closure(kind, body))
  /\ last' = Event(kind, "issued", inflight = <<>>, id)
  /\ UNCHANGED <<stocks, newStock, editStock, loading, error,
                 portfolioMetrics, isMetricsLoading, remote, nextId, failed>>

Issue(kind, body, id) == IssueWithin(MaxRequests, kind, body, id)

Init ==
  /\ stocks = InitialState.stocks
  /\ newStock = InitialState.newStock
  /\ editStock = InitialState.editStock
  /\ loading = InitialState.loading
  /\ error = InitialState.error
  /\ portfolioMetrics = InitialState.portfolioMetrics
  /\ isMetricsLoading = InitialState.isMetricsLoading
  /\ remote \in InitialRemotes
  /\ nextId = Len(remote) + 1
  /\ inflight = <<>>
  /\ requests = 0
  /\ failed = FALSE
  /\ last = Event("mount", "issued", TRUE, 0)

\* the GET of the mount effect settles (lines 31-43)
LoadSettles ==
  /\ loading
  /\ \E response \in
         { [ok |-> TRUE, isArray |-> TRUE, data |-> remote],
           [ok |-> TRUE, isArray |-> FALSE, data |-> <<>>],
           [ok |-> FALSE, isArray |-> FALSE, data |-> <<>>] } :
       /\ SetState(fetchStocks(State, response))
       /\ failed' = (failed \/ ~response.ok \/ ~response.isArray)
       /\ last' = Event("load",
                        IF ~response.ok THEN "failure"
                        ELSE IF ~response.isArray THEN "malformed"
                        ELSE "success",
                        TRUE, 0)
  /\ UNCHANGED <<remote, nextId, inflight, requests>>

\* onChange of an input of the form while no stock is edited (lines 250-277)
TypeNewStock ==
  /\ Interactive
  /\ editStock = Null
  /\ \/ \E v \in FormNames : newStock' = [newStock EXCEPT !.name = v]
     \/ \E v \in FormTickers : newStock' = [newStock EXCEPT !.ticker = v]
     \/ \E v \in FormQuantities :
          newStock' = [newStock EXCEPT !.quantity = Str(v)]
     \/ \E v \in FormBuyPrices :
          newStock' = [newStock EXCEPT !.buyPrice = Str(v)]
  /\ newStock' # newStock
  /\ last' = Event("type", "done", TRUE, 0)
  /\ UNCHANGED <<stocks, editStock, loading, error, portfolioMetrics,
                 isMetricsLoading, remote, nextId, inflight, requests, failed>>

\* handleAddStock returns at one of its two checks (lines 102-109)
AddRejected ==
  /\ Interactive
  /\ editStock = Null
  /\ AddValidation(newStock) # Null
  /\ error' = AddValidation(newStock)
  /\ last' = Event("add", "invalid", TRUE, 0)
  /\ UNCHANGED <<stocks, newStock, editStock, loading, portfolioMetrics,
                 isMetricsLoading, remote, nextId, inflight, requests, failed>>

\* handleAddStock passes its checks and awaits the POST (lines 111-113)
AddIssued ==
  /\ Interactive
  /\ editStock = Null
  /\ AddValidation(newStock) = Null
  /\ Issue("add", stockWithPrice(newStock), 0)

\* the POST settles and handleAddStock resumes (lines 113-121)
AddSettles ==
  /\ ~RenderThrows
  /\ \E i \in 1..Len(inflight) :
       /\ inflight[i].kind = "add"
       /\ inflight' = RemoveAt(inflight, i)
       /\ \/ \E cp \in RemotePrices :
               LET data == RemoteRecord(nextId, inflight[i].body, cp) IN
               /\ remote' = Append(remote, data)
               /\ nextId' = nextId + 1
               /\ SetState(handleAddStock(State, inflight[i],
                                          [ok |-> TRUE, data |-> data]))
               /\ last' = Event("add", "success", inflight[i].solo, nextId)
               /\ failed' = failed
          \/ /\ SetState(handleAddStock(State, inflight[i],
                                        [ok |-> FALSE, data |-> Null]))
             /\ last' = Event("add", "failure", inflight[i].solo, 0)
             /\ failed' = TRUE
             /\ UNCHANGED <<remote, nextId>>
  /\ UNCHANGED requests

\* the Edit button of a card (lines 225-230)
EditStarted ==
  /\ Interactive
  /\ \E k \in 1..Len(stocks) :
       /\ ~IsEdited(stocks[k].id)
       /\ editStock' = <<stocks[k]>>
       /\ last' = Event("edit", "done", TRUE, stocks[k].id)
  /\ UNCHANGED <<stocks, newStock, loading, error, portfolioMetrics,
                 isMetricsLoading, remote, nextId, inflight, requests, failed>>

\* onChange of an input of the form while a stock is edited (lines 130-132)
EditChanged ==
  /\ Interactive
  /\ editStock # Null
  /\ \/ \E v \in EditNames : editStock' = <<[editStock[1] EXCEPT !.name = v]>>
     \/ \E v \in EditTickers :
          editStock' = <<[editStock[1] EXCEPT !.ticker = v]>>
     \/ \E v \in EditQuantities :
          editStock' = <<[editStock[1] EXCEPT !.quantity = Str(v)]>>
     \/ \E v \in EditBuyPrices :
          editStock' = <<[editStock[1] EXCEPT !.buyPrice = Str(v)]>>
  /\ editStock' # editStock
  /\ last' = Event("change", "done", TRUE, editStock[1].id)
  /\ UNCHANGED <<stocks, newStock, loading, error, portfolioMetrics,
                 isMetricsLoading, remote, nextId, inflight, requests, failed>>

\* the Cancel button of the edited card (lines 161-163, 219-221)
EditCancelled ==
  /\ Interactive
  /\ editStock # Null
  /\ HasCard(editStock[1].id)
  /\ editStock' = Null
  /\ last' = Event("cancel", "done", TRUE, editStock[1].id)
  /\ UNCHANGED <<stocks, newStock, loading, error, portfolioMetrics,
                 isMetricsLoading, remote, nextId, inflight, requests, failed>>

\* handleSaveEdit returns at one of its two checks (lines 136-143)
SaveRejected ==
  /\ Interactive
  /\ editStock # Null
  /\ EditValidation(editStock) # Null
  /\ error' = EditValidation(editStock)
  /\ last' = Event("update", "invalid", TRUE, editStock[1].id)
  /\ UNCHANGED <<stocks, newStock, editStock, loading, portfolioMetrics,
                 isMetricsLoading, remote, nextId, inflight, requests, failed>>

\* handleSaveEdit passes its checks and awaits the PUT (lines 145-146)
SaveIssuedWithin(limit) ==
  /\ Interactive
  /\ editStock # Null
  /\ EditValidation(editStock) = Null
  /\ IssueWithin(limit, "update", editStock[1], editStock[1].id)

SaveIssued == SaveIssuedWithin(MaxRequests)

\* the PUT settles and handleSaveEdit resumes (lines 146-157)
SaveSettles ==
  /\ ~RenderThrows
  /\ \E i \in 1..Len(inflight) :
       /\ inflight[i].kind = "update"
       /\ inflight' = RemoveAt(inflight, i)
       /\ \/ /\ RemoteHas(remote, inflight[i].body.id)
             /\ \E cp \in RemotePrices :
                  LET data == RemoteRecord(inflight[i].body.id,
                                           inflight[i].body, cp) IN
                  /\ remote' = RemotePut(remote, data)
                  /\ SetState(handleSaveEdit(State, inflight[i],
                                             [ok |-> TRUE, data |-> data]))
                  /\ last' = Event("update", "success", inflight[i].solo,
                                   inflight[i].body.id)
                  /\ failed' = failed
          \/ /\ SetState(handleSaveEdit(State, inflight[i],
                                        [ok |-> FALSE, data |-> Null]))
             /\ last' = Event("update", "failure", inflight[i].solo,
                              inflight[i].body.id)
             /\ failed' = TRUE
             /\ remote' = remote
  /\ UNCHANGED <<nextId, requests>>

\* the Delete button of a card awaits the DELETE (lines 166-168, 231-236)
DeleteIssuedWithin(limit) ==
  /\ Interactive
  /\ \E k \in 1..Len(stocks) :
       /\ ~IsEdited(stocks[k].id)
       /\ IssueWithin(limit, "remove", [id |-> stocks[k].id], stocks[k].id)

DeleteIssued == DeleteIssuedWithin(MaxRequests)

\* the DELETE settles and handleDeleteStock resumes (lines 168-174)
DeleteSettles ==
  /\ ~RenderThrows
  /\ \E i \in 1..Len(inflight) :
       /\ inflight[i].kind = "remove"
       /\ inflight' = RemoveAt(inflight, i)
       /\ \/ /\ remote' = RemoteDelete(remote, inflight[i].body.id)
             /\ SetState(handleDeleteStock(State, inflight[i],
                                           [ok |-> TRUE, data |-> Null]))
             /\ last' = Event("remove", "success", inflight[i].solo,
                              inflight[i].body.id)
             /\ failed' = failed
          \/ /\ SetState(handleDeleteStock(State, inflight[i],
                                           [ok |-> FALSE, data |-> Null]))
             /\ last' = Event("remove", "failure", inflight[i].solo,
                              inflight[i].body.id)
             /\ failed' = TRUE
             /\ remote' = remote
  /\ UNCHANGED <<nextId, requests>>

Next ==
  \/ LoadSettles
  \/ TypeNewStock
  \/ AddRejected
  \/ AddIssued
  \/ AddSettles
  \/ EditStarted
  \/ EditChanged
  \/ EditCancelled
  \/ SaveRejected
  \/ SaveIssued
  \/ SaveSettles
  \/ DeleteIssued
  \/ DeleteSettles

Spec == Init /\ [][Next]_vars

\* the dashboard with the form left in add mode: no card's Edit button is
\* ever clicked, so editStock stays null
NextAddRemove ==
  \/ LoadSettles
  \/ TypeNewStock
  \/ AddRejected
  \/ AddIssued
  \/ AddSettles
  \/ DeleteIssued
  \/ DeleteSettles

SpecAddRemove == Init /\ [][NextAddRemove]_vars

\* the dashboard with the add form left untouched: cards are edited, saved
\* and deleted
NextEditRemove ==
  \/ LoadSettles
  \/ EditStarted
  \/ EditChanged
  \/ EditCancelled
  \/ SaveRejected
  \/ SaveIssued
  \/ SaveSettles
  \/ DeleteIssued
  \/ DeleteSettles

SpecEditRemove == Init /\ [][NextEditRemove]_vars

\* the same with runs of up to MaxRequestsDeep requests
NextEditRemoveDeep ==
  \/ LoadSettles
  \/ EditStarted
  \/ EditChanged
  \/ EditCancelled
  \/ SaveRejected
  \/ SaveIssuedWithin(MaxRequestsDeep)
  \/ SaveSettles
  \/ DeleteIssuedWithin(MaxRequestsDeep)
  \/ DeleteSettles

SpecEditRemoveDeep == Init /\ [][NextEditRemoveDeep]_vars

\* the mount alone, over every payload GET /stocks may return: the metrics
\* of a collection are computed when the load settles
InitMetrics ==
  /\ stocks = InitialState.stocks
  /\ newStock = InitialState.newStock
  /\ editStock = InitialState.editStock
  /\ loading = InitialState.loading
  /\ error = InitialState.error
  /\ portfolioMetrics = InitialState.portfolioMetrics
  /\ isMetricsLoading = InitialState.isMetricsLoading
  /\ remote \in MetricCollections
  /\ nextId = Len(remote) + 1
  /\ inflight = <<>>
  /\ requests = 0
  /\ failed = FALSE
  /\ last = Event("mount", "issued", TRUE, 0)

NextMetrics == LoadSettles

SpecMetrics == InitMetrics /\ [][NextMetrics]_vars

-----------------------------------------------------------------------------
(* Properties *)

Succeeded(op) == last.op = op /\ last.outcome = "success"

\* C1: after a successful update has settled, the stored metrics are the
\* metrics of the collection as it is after the update (with the returned
\* record in place), not of the collection the handler captured.
C1_MetricsFollowUpdate ==
  Succeeded("update") => portfolioMetrics = <<ComputeMetrics(stocks)>>

\* C2: a recompute never stores null, and over a collection with no eligible
\* holding (the empty one included) it stores the canonical empty metrics.
C2_RecomputeNeverNull ==
  (last.op \in {"load", "add", "remove"} /\ last.outcome = "success")
    => /\ portfolioMetrics # Null
       /\ validStocks(stocks) = <<>> => portfolioMetrics = <<EmptyMetrics>>

\* C3: right after any operation has completed successfully no error is
\* shown, whatever error an earlier operation left.
C3_SuccessClearsError ==
  last.outcome = "success" => error = Null

\* C4: when requests overlapped and none failed, then once the last of them
\* has settled the local collection is the remote store's collection.
C4_LocalMatchesRemote ==
  (last.outcome = "success" /\ ~last.solo /\ inflight = <<>> /\ ~failed)
    => stocks = remote

\* the precondition of C5, in the claim's terms
CandidateInvalid(form) ==
  \/ form.name = ""
  \/ form.ticker = ""
  \/ form.quantity = Str("")
  \/ form.buyPrice = Str("")
  \/ ToNumber(form.quantity) <= 0
  \/ ToNumber(form.buyPrice) <= 0

ValidationErrors ==
  { <<"Please fill in all fields.">>,
    <<"Quantity and Buy Price must be positive numbers.">> }

\* C5: a call of add with a field empty or a non-positive quantity or
\* buyPrice issues no request, sets a validation error and leaves the
\* collection, the metrics and the form as they were.
C5_InvalidAddIsRejected ==
  [][ (last'.op = "add" /\ last'.outcome \in {"invalid", "issued"}
       /\ CandidateInvalid(newStock))
      => /\ inflight' = inflight
         /\ requests' = requests
         /\ remote' = remote
         /\ error' \in ValidationErrors
         /\ stocks' = stocks
         /\ portfolioMetrics' = portfolioMetrics
         /\ newStock' = newStock ]_vars

C5_Witness ==
  /\ last.op = "add"
  /\ last.outcome = "invalid"
  /\ newStock.name = "A"
  /\ newStock.ticker = "T"
  /\ newStock.quantity = Str("0")
  /\ newStock.buyPrice = Str("5")
  /\ stocks # <<>>

\* C6: neither the call of add or remove nor the failure of its request
\* changes the collection, the metrics or (for add) the form; the failure
\* sets the error of the operation.
C6_FailureChangesNothing ==
  [][ /\ (last'.op \in {"add", "remove"} /\ last'.outcome = "issued")
         => /\ stocks' = stocks
            /\ portfolioMetrics' = portfolioMetrics
            /\ newStock' = newStock
      /\ (last'.op = "add" /\ last'.outcome = "failure")
         => /\ error' = <<"Failed to add stock.">>
            /\ stocks' = stocks
            /\ portfolioMetrics' = portfolioMetrics
            /\ newStock' = newStock
      /\ (last'.op = "remove" /\ last'.outcome = "failure")
         => /\ error' = <<"Failed to delete stock.">>
            /\ stocks' = stocks
            /\ portfolioMetrics' = portfolioMetrics ]_vars

C6_Witness ==
  /\ last.op = "add"
  /\ last.outcome = "failure"
  /\ newStock # EmptyForm
  /\ stocks # <<>>
  /\ error = <<"Failed to add stock.">>

\* C7: right after the load has failed or returned a non-sequence payload
\* the load error is set, the collection is empty and the metrics are the
\* initial ones, with no recompute having run.
C7_FailedLoadLeavesInitialState ==
  (last.op = "load" /\ last.outcome \in {"failure", "malformed"})
    => /\ error = <<"Failed to fetch stock data.">>
       /\ stocks = <<>>
       /\ portfolioMetrics = InitialState.portfolioMetrics
       /\ isMetricsLoading = InitialState.isMetricsLoading

C7_Witness ==
  /\ last.op = "load"
  /\ last.outcome = "malformed"
  /\ remote # <<>>
  /\ ~loading

\* C8: right after the load has failed the error is set and neither the
\* collection loading flag nor the metrics loading flag is true.
C8_FailedLoadIsNotLoading ==
  (last.op = "load" /\ last.outcome = "failure")
    => /\ error # Null
       /\ ~loading
       /\ ~isMetricsLoading

\* C9: right after the load has succeeded the collection is the payload and
\* the metrics are the metrics of the payload.
C9_LoadReplacesCollection ==
  Succeeded("load")
    => /\ stocks = remote
       /\ portfolioMetrics = <<ComputeMetrics(remote)>>

\* C10: a valid add submits the form's fields with current_price null; when
\* its request succeeds and no other request was in flight meanwhile, the
\* collection becomes the prior collection followed by the returned record
\* with its new id, the form is reset and the metrics are those of the new
\* collection.
C10_SoloAddAppends ==
  [][ /\ (last'.op = "add" /\ last'.outcome = "issued")
         => inflight'[Len(inflight')].body =
              [name |-> newStock.name, ticker |-> newStock.ticker,
               quantity |-> newStock.quantity, buyPrice |-> newStock.buyPrice,
               current_price |-> Null]
      /\ (last'.op = "add" /\ last'.outcome = "success" /\ last'.solo)
         => LET returned == remote'[Len(remote')] IN
            /\ remote' = Append(remote, returned)
            /\ returned.id = last'.id
            /\ \A k \in 1..Len(stocks) : stocks[k].id # returned.id
            /\ stocks' = Append(stocks, returned)
            /\ newStock' = EmptyForm
            /\ portfolioMetrics' = <<ComputeMetrics(stocks')>> ]_vars

C10_Witness ==
  /\ Succeeded("add")
  /\ last.solo
  /\ Len(stocks) = 3
  /\ stocks[3].current_price = Num(30)
  /\ stocks[1].current_price = Num(10)

\* C11: a successful update puts the returned record in the place of the
\* element with its id and leaves every other element, the length and the
\* order of the collection as they were.
C11_UpdateReplacesOne ==
  [][ (last'.op = "update" /\ last'.outcome = "success")
      => LET returned == CHOOSE r \in Range(remote') : r.id = last'.id IN
         /\ Len(stocks') = Len(stocks)
         /\ \A k \in 1..Len(stocks) :
              stocks'[k] = IF stocks[k].id = last'.id
                           THEN returned ELSE stocks[k] ]_vars

\* C12: the edit buffer goes from set to unset only when an update succeeds
\* or the edit is cancelled; an update that fails its checks or whose request
\* fails sets an error and leaves the collection and the edit buffer as they
\* were; cancelling the edit issues no request.
C12_EditModeLeftOnlyOnSuccessOrCancel ==
  [][ /\ (editStock # Null /\ editStock' = Null)
         => \/ last'.op = "update" /\ last'.outcome = "success"
            \/ last'.op = "cancel"
      /\ (last'.op = "update" /\ last'.outcome = "invalid")
         => /\ error' \in ValidationErrors
            /\ stocks' = stocks
            /\ editStock' = editStock
            /\ inflight' = inflight
            /\ requests' = requests
      /\ (last'.op = "update" /\ last'.outcome = "failure")
         => /\ error' = <<"Failed to update stock.">>
            /\ stocks' = stocks
            /\ editStock' = editStock
      /\ last'.op = "cancel"
         => /\ inflight' = inflight
            /\ requests' = requests
            /\ remote' = remote ]_vars

C12_Witness ==
  /\ last.op = "update"
  /\ last.outcome = "failure"
  /\ editStock # Null
  /\ editStock[1].quantity = Str("5")
  /\ HasCard(editStock[1].id)
  /\ error = <<"Failed to update stock.">>

\* C13: a remove that succeeds with no other request in flight meanwhile
\* leaves the collection without the element of the given id, and the
\* metrics are the metrics of that collection.
C13_SoloRemoveFilters ==
  [][ (last'.op = "remove" /\ last'.outcome = "success" /\ last'.solo)
      => /\ stocks' = SelectSeq(stocks, LAMBDA stock : stock.id # last'.id)
         /\ portfolioMetrics' = <<ComputeMetrics(stocks')>> ]_vars

\* C14: a remove of an id that the collection does not hold, when its request
\* succeeds, changes neither the collection nor the stored metrics.
C14_AbsentRemoveChangesNothing ==
  [][ (last'.op = "remove" /\ last'.outcome = "success"
       /\ ~HasCard(last'.id))
      => /\ stocks' = stocks
         /\ portfolioMetrics' = portfolioMetrics ]_vars

\* eligibility in the terms of C15: a set, positive price and a positive
\* quantity
Eligible(holding) ==
  /\ holding.current_price # Null
  /\ holding.current_price[2] > 0
  /\ holding.quantity[2] > 0

RECURSIVE EligibleSum(_, _)
\* the sum of price * quantity over the eligible holdings from index i on
EligibleSum(list, i) ==
  IF i > Len(list) THEN 0
  ELSE (IF Eligible(list[i])
        THEN list[i].current_price[2] * list[i].quantity[2] ELSE 0)
       + EligibleSum(list, i + 1)

RECURSIVE SumOfNumerators(_, _)
SumOfNumerators(distribution, i) ==
  IF i > Len(distribution) THEN 0
  ELSE distribution[i].percentage[1] + SumOfNumerators(distribution, i + 1)

\* the metrics object computed for the loaded collection
Computed == Succeeded("load") /\ portfolioMetrics # Null

\* C15: in the metrics of any collection, a holding with an unset or
\* non-positive price or a non-positive quantity is not the top holding and
\* has no entry in the distribution, and totalValue is the sum of
\* price * quantity over the other holdings.
C15_IneligibleExcluded ==
  Computed =>
    LET m == portfolioMetrics[1] IN
    /\ m.totalValue = EligibleSum(stocks, 1)
    /\ \A k \in 1..Len(stocks) :
         ~Eligible(stocks[k])
           => /\ m.topStock # <<stocks[k]>>
              /\ \A j \in 1..Len(m.portfolioDistribution) :
                   m.portfolioDistribution[j].id # stocks[k].id

C15_Witness ==
  /\ Computed
  /\ Len(stocks) = 3
  /\ stocks[1].current_price = Null
  /\ stocks[2].current_price = Num(30) /\ stocks[2].quantity = Num(0)
  /\ stocks[3].current_price = Num(10) /\ stocks[3].quantity = Num(3)
  /\ portfolioMetrics[1].totalValue = 30

\* C16: when some holding is eligible, the top holding is the eligible
\* holding of greatest price, and among several of that price the one that
\* comes first in the collection.
C16_TopIsFirstOfGreatestPrice ==
  Computed =>
    LET eligible == { k \in 1..Len(stocks) : Eligible(stocks[k]) } IN
    eligible # {}
      => \E k \in eligible :
           /\ portfolioMetrics[1].topStock = <<stocks[k]>>
           /\ \A j \in eligible :
                /\ stocks[j].current_price[2] <= stocks[k].current_price[2]
                /\ stocks[j].current_price[2] = stocks[k].current_price[2]
                     => k <= j

C16_Witness ==
  /\ Computed
  /\ Len(stocks) = 3
  /\ stocks[1].current_price = Num(10) /\ stocks[1].quantity = Num(3)
  /\ stocks[2].current_price = Num(30) /\ stocks[2].quantity = Num(1)
  /\ stocks[3].current_price = Num(30) /\ stocks[3].quantity = Num(3)
  /\ portfolioMetrics[1].topStock = <<stocks[2]>>

\* C17: the distribution has one entry per eligible holding, in the order
\* of the collection, with percentage price * quantity / totalValue * 100,
\* and the percentages of a non-empty distribution sum to 100.
C17_DistributionInInputOrder ==
  Computed =>
    LET m == portfolioMetrics[1]
        distribution == m.portfolioDistribution
        eligible == SelectSeq(stocks, Eligible)
    IN /\ Len(distribution) = Len(eligible)
       /\ \A k \in 1..Len(eligible) :
            /\ distribution[k].id = eligible[k].id
            /\ distribution[k].percentage[2] = m.totalValue
            /\ m.totalValue > 0
            /\ distribution[k].percentage[1] =
                 eligible[k].current_price[2] * eligible[k].quantity[2] * 100
       /\ Len(distribution) > 0
            => SumOfNumerators(distribution, 1) = 100 * m.totalValue

C17_Witness ==
  /\ Computed
  /\ Len(stocks) = 3
  /\ Len(portfolioMetrics[1].portfolioDistribution) = 3
  /\ portfolioMetrics[1].portfolioDistribution[1].percentage = <<1000, 130>>
  /\ portfolioMetrics[1].portfolioDistribution[2].percentage = <<9000, 130>>
  /\ portfolioMetrics[1].portfolioDistribution[3].percentage = <<3000, 130>>

\* C18: whatever Math.random returns, the chart built from the stored
\* metrics has one label, one value and one color per entry of the
\* distribution, the label being the entry's name and the value its
\* percentage; for unset metrics or an empty distribution it is the empty
\* object.
C18_ChartMatchesDistribution ==
  LET distribution == IF portfolioMetrics = Null THEN <<>>
                      ELSE portfolioMetrics[1].portfolioDistribution
  IN \A random \in [1..Len(distribution) -> Hues] :
       LET chart == pieChartData(portfolioMetrics, random) IN
       IF distribution = <<>>
       THEN DOMAIN chart = {}
       ELSE /\ DOMAIN chart = {"labels", "datasets"}
            /\ Len(chart.datasets) = 1
            /\ Len(chart.labels) = Len(distribution)
            /\ Len(chart.datasets[1].data) = Len(distribution)
            /\ Len(chart.datasets[1].backgroundColor) = Len(distribution)
            /\ \A k \in 1..Len(distribution) :
                 /\ chart.labels[k] = distribution[k].name
                 /\ chart.datasets[1].data[k] = distribution[k].percentage
                 /\ chart.datasets[1].backgroundColor[k] = Hsl(random[k])

C18_Witness ==
  /\ Computed
  /\ Len(stocks) = 3
  /\ Len(portfolioMetrics[1].portfolioDistribution) = 2
  /\ portfolioMetrics[1].portfolioDistribution[1].name = "A"
  /\ portfolioMetrics[1].portfolioDistribution[2].name = "C"

\* C19: whenever the edit buffer is set, the collection holds an element
\* with the buffer's id.
C19_EditRefersToCard ==
  editStock # Null => HasCard(editStock[1].id)

====
